---------------------------- MODULE Spec2Model ----------------------------
(***************************************************************************)
(* Reinforced-concrete footing design (src/source.py) and its batch driver *)
(* (src/ex1.py) as a state machine.                                        *)
(*                                                                         *)
(* Numbers.  The program computes with Python floats.  The model computes  *)
(* with exact rationals <<numerator, denominator>> (denominator > 0,       *)
(* lowest terms), i.e. with the real-number meaning of every formula.      *)
(* math.sqrt is exact on the perfect squares the model feeds it (f_c), and *)
(* where its argument is not a perfect square (the required area, the     *)
(* discriminant of the rho quadratic) the model never materialises the     *)
(* root: it decides every comparison the code makes on it by squaring.     *)
(* The one exception is round_up taken on its own (UpSpec), whose          *)
(* properties are decided by float rounding: there line 554 is evaluated   *)
(* on IEEE 754 doubles (round_up_double).                                  *)
(***************************************************************************)
EXTENDS Integers, Sequences, FiniteSets, TLC

(***************************************************************************)
(* Exact rational arithmetic (Python's float operators + - * / < and       *)
(* math.ceil, read over the reals).                                        *)
(***************************************************************************)
Abs(n) == IF n < 0 THEN -n ELSE n

RECURSIVE GCD(_, _)
GCD(a, b) == IF b = 0 THEN a ELSE GCD(b, a % b)

Norm(n, d) ==
    LET g == GCD(Abs(n), Abs(d))
        s == IF d < 0 THEN -1 ELSE 1
    IN  <<(s * n) \div g, (s * d) \div g>>

Num(n) == <<n, 1>>

Frac(n, d) == Norm(n, d)

Neg(a) == <<-a[1], a[2]>>

Inv(a) == IF a[1] < 0 THEN <<-a[2], -a[1]>> ELSE <<a[2], a[1]>>

Mul(a, b) ==
    LET g1 == GCD(Abs(a[1]), b[2])
        g2 == GCD(Abs(b[1]), a[2])
    IN  <<(a[1] \div g1) * (b[1] \div g2), (a[2] \div g2) * (b[2] \div g1)>>

Div(a, b) == Mul(a, Inv(b))

Add(a, b) ==
    LET g == GCD(a[2], b[2])
    IN  Norm(a[1] * (b[2] \div g) + b[1] * (a[2] \div g), (a[2] \div g) * b[2])

Sub(a, b) == Add(a, Neg(b))

Floor(a) == a[1] \div a[2]

Ceil(a) == -((-a[1]) \div a[2])

\* n1/d1 < n2/d2 for non-negative fractions, by comparing their continued
\* fractions: no product is formed, so no 32-bit overflow.
RECURSIVE CFLess(_, _, _, _)
CFLess(n1, d1, n2, d2) ==
    LET q1 == n1 \div d1
        q2 == n2 \div d2
        r1 == n1 - q1 * d1
        r2 == n2 - q2 * d2
    IN  IF q1 # q2 THEN q1 < q2
        ELSE IF r2 = 0 THEN FALSE
        ELSE IF r1 = 0 THEN TRUE
        ELSE CFLess(d2, r2, d1, r1)

Less(a, b) ==
    LET fa == Floor(a)
        fb == Floor(b)
    IN  IF fa # fb THEN fa < fb
        ELSE CFLess(a[1] - fa * a[2], a[2], b[1] - fb * b[2], b[2])

LessEq(a, b) == ~Less(b, a)

Max2(a, b) == IF Less(a, b) THEN b ELSE a

Min2(a, b) == IF Less(b, a) THEN b ELSE a

Square(a) == Mul(a, a)

\* math.sqrt on a perfect square (exact in floats as well)
Sqrt(a) == <<CHOOSE r \in 0..200 : r * r = a[1], CHOOSE r \in 1..200 : r * r = a[2]>>

\* sqrt(v) > t and sqrt(v) >= t for v >= 0, decided without taking the root
SqrtGreater(v, t) == Less(t, Num(0)) \/ Less(Square(t), v)

SqrtGreaterEq(v, t) == LessEq(t, Num(0)) \/ LessEq(Square(t), v)

(***************************************************************************)
(* Wide comparison.  sign(k - r*t) for rationals k, r >= 0, t >= 0 whose   *)
(* product r*t need not fit 32 bits: both sides of the cross-multiplied    *)
(* comparison are formed as base-10000 digit sequences (least significant  *)
(* digit first).                                                           *)
(***************************************************************************)
Limb == 10000

BigOf(n) == <<n % Limb, (n \div Limb) % Limb, n \div (Limb * Limb)>>

RECURSIVE Conv(_, _, _, _)
Conv(A, B, k, i) ==
    IF i > Len(A) THEN 0
    ELSE (IF k - i + 1 >= 1 /\ k - i + 1 <= Len(B) THEN A[i] * B[k - i + 1] ELSE 0)
         + Conv(A, B, k, i + 1)

RECURSIVE BigMulFrom(_, _, _, _)
BigMulFrom(A, B, k, carry) ==
    IF k > Len(A) + Len(B) THEN <<>>
    ELSE LET s == Conv(A, B, k, 1) + carry
         IN  <<s % Limb>> \o BigMulFrom(A, B, k + 1, s \div Limb)

BigMul(A, B) == BigMulFrom(A, B, 1, 0)

RECURSIVE BigCmpAt(_, _, _)
BigCmpAt(A, B, k) ==
    IF k = 0 THEN 0
    ELSE IF A[k] < B[k] THEN -1
    ELSE IF A[k] > B[k] THEN 1
    ELSE BigCmpAt(A, B, k - 1)

BigCmp(A, B) == BigCmpAt(A, B, Len(A))

ProdCompare(k, r, t) ==
    IF k[1] < 0 THEN -1
    ELSE BigCmp(BigMul(BigMul(BigOf(k[1]), BigOf(r[2])), BigOf(t[2])),
                BigMul(BigMul(BigOf(r[1]), BigOf(t[1])), BigOf(k[2])))

\* the value a variable holds before the program assigns it
None == <<0, 0>>

\* a str passed where the code expects a number
Str == <<0, 0>>

\* what a call yields: its return value, or the exception it raises and the
\* source line that raises it
Return(v) == [raises |-> "None", line |-> 0, val |-> v]

Raise(type, at) == [raises |-> type, line |-> at, val |-> None]

(***************************************************************************)
(* class Footing: material and section properties                          *)
(***************************************************************************)
set_lam(conc_type) ==
    IF conc_type = "nw" THEN Return(Num(1))
    ELSE IF conc_type = "lw" THEN Return(Frac(75, 100))
    ELSE IF conc_type = "s_lw" THEN Return(Frac(85, 100))
    ELSE Raise("UnboundLocalError", 109)      \* lam is read unassigned

\* set_beta_1 without the floor of 0.65 (not the program's)
set_beta_1_unbounded(f_c_) ==
    IF Less(Num(4000), f_c_)
    THEN Sub(Frac(85, 100), Div(Mul(Frac(5, 100), Sub(f_c_, Num(4000))), Num(1000)))
    ELSE Frac(85, 100)

set_beta_1(f_c_) ==
    IF Less(Num(4000), f_c_)
    THEN Max2(Sub(Frac(85, 100), Div(Mul(Frac(5, 100), Sub(f_c_, Num(4000))), Num(1000))),
              Frac(65, 100))
    ELSE Frac(85, 100)

get_steel_props(grade) ==
    IF grade = 40 THEN Return(<<Num(40000), Frac(138, 100000)>>)
    ELSE IF grade = 60 THEN Return(<<Num(60000), Frac(207, 100000)>>)
    ELSE IF grade = 75 THEN Return(<<Num(75000), Frac(259, 100000)>>)
    ELSE Raise("UnboundLocalError", 161)      \* f_y is read unassigned

\* set_d as it would be with the wall's half bar diameter for every footing
set_d_half_bar(h_, ftng_type, bar_size) ==
    IF bar_size = Str THEN Raise("TypeError", 186)
    ELSE Return(Sub(Sub(Mul(h_, Num(12)), Num(3)), Div(Div(bar_size, Num(8)), Num(2))))

\* set_d(ftng_type, bar_size=8) on a footing of thickness h_
set_d(h_, ftng_type, bar_size) ==
    IF ftng_type = "wall"
    THEN IF bar_size = Str THEN Raise("TypeError", 186)
         ELSE Return(Sub(Sub(Mul(h_, Num(12)), Num(3)), Div(Div(bar_size, Num(8)), Num(2))))
    ELSE IF bar_size = Str THEN Raise("TypeError", 189)   \* str / int
         ELSE Return(Sub(Sub(Mul(h_, Num(12)), Num(3)), Div(bar_size, Num(8))))

net_asp(asp, w_e, bottom, h_, w_c_) ==
    Div(Sub(Sub(asp, Mul(w_e, Sub(bottom, h_))), Mul(w_c_, h_)), Num(1000))

\* a / b, or the ZeroDivisionError of line `at`
Quotient(a, b, at) == IF b = Num(0) THEN Raise("ZeroDivisionError", at) ELSE Return(Div(a, b))

factored_soil_pressure(d_l, l_l, dimension) ==
    Quotient(Add(Mul(Frac(12, 10), d_l), Mul(Frac(16, 10), l_l)), dimension, 245)

(***************************************************************************)
(* class Footing: flexure                                                  *)
(***************************************************************************)
get_k_bar(m_u, phi, b, d_) == Quotient(Mul(m_u, Num(12)), Mul(Mul(phi, b), Square(d_)), 271)

\* The quadratic a*rho^2 + b*rho + c = 0 of solve_for_rho with its three
\* coefficients divided by 1000 (f_y**2 does not fit 32 bits): the roots and
\* the sign of the discriminant are those of the code's a, b, c.
QuadA(f_y_, f_c_) == Mul(Mul(Frac(-59, 100), Div(f_y_, Num(1000))), Div(f_y_, f_c_))

QuadB(f_y_) == Div(f_y_, Num(1000))

\* (b**2) - (4*a*c) < 0 with c = -k_bar: k_bar > b**2 / (-4a), a < 0
DiscriminantNegative(k_bar, f_y_, f_c_) ==
    Less(Div(Square(QuadB(f_y_)), Mul(Num(-4), QuadA(f_y_, f_c_))), k_bar)

\* -b / (2a): where the quadratic peaks, between its two roots
QuadVertex(f_y_, f_c_) == Div(Neg(QuadB(f_y_)), Mul(Num(2), QuadA(f_y_, f_c_)))

\* sign of a*r**2 + b*r + c at 0 <= r <= vertex, i.e. of r*(b + a*r) - k_bar
QuadSign(k_bar, r, f_y_, f_c_) ==
    -ProdCompare(k_bar, r, Add(QuadB(f_y_), Mul(QuadA(f_y_, f_c_), r)))

\* rho = (-b + sqrt(b**2 - 4ac)) / (2a) is the smaller root, and the quadratic
\* is negative below it and non-negative from it to the vertex.
RhoLessEq(k_bar, r, f_y_, f_c_) ==
    \/ LessEq(QuadVertex(f_y_, f_c_), r)
    \/ QuadSign(k_bar, r, f_y_, f_c_) >= 0

RhoGreaterEq(k_bar, r, f_y_, f_c_) ==
    /\ LessEq(r, QuadVertex(f_y_, f_c_))
    /\ QuadSign(k_bar, r, f_y_, f_c_) <= 0

\* get_phi(rho) for the rho of solve_for_rho, told from k_bar:
\* epsilon_t = E/rho - 0.003 with E = 0.002555*f_c*beta_1/f_y, and rho has the
\* sign of k_bar.
EpsilonNumerator(f_c_, beta_1_, f_y_) == Div(Mul(Mul(Frac(2555, 1000000), f_c_), beta_1_), f_y_)

get_phi(k_bar, f_c_, beta_1_, f_y_, epsilon_y_) ==
    LET E == EpsilonNumerator(f_c_, beta_1_, f_y_)
    IN  IF k_bar = Num(0) THEN Raise("ZeroDivisionError", 335)     \* rho = 0
        ELSE IF \/ Less(k_bar, Num(0))
                \/ RhoGreaterEq(k_bar, Div(E, Add(epsilon_y_, Frac(3, 1000))), f_y_, f_c_)
             THEN Return("0.65")                      \* epsilon_t <= epsilon_y
        ELSE IF RhoLessEq(k_bar, Div(E, Frac(8, 1000)), f_y_, f_c_)
             THEN Return("0.9")                       \* epsilon_t >= 0.005
        ELSE Return("0.65 + 0.25*(epsilon_t - epsilon_y)/(0.005 - epsilon_y)")

\* round_up(x, n) = math.ceil(x * 10**n) / (10**n)
Pow10(n) == IF n = 0 THEN 1 ELSE IF n = 1 THEN 10 ELSE IF n = 2 THEN 100
            ELSE IF n = 3 THEN 1000 ELSE 10000

round_up(x_, n) == Frac(Ceil(Mul(x_, Num(Pow10(n)))), Pow10(n))

(***************************************************************************)
(* round_up in the program's own arithmetic.  A positive Python float is   *)
(* an IEEE 754 double [m |-> M, e |-> E] of value M * 2^E with             *)
(* 2^52 <= M < 2^53; M is a sequence of base-65536 digits, least           *)
(* significant first.  Every operation of round_up (float * int, math.ceil *)
(* and int / int) returns the double nearest to the exact result, ties to  *)
(* the even mantissa.                                                      *)
(***************************************************************************)
Radix == 65536

\* A * k + carry for a digit sequence A and 0 <= k, carry < 2^14
RECURSIVE WideMulFrom(_, _, _, _)
WideMulFrom(A, k, j, carry) ==
    IF j > Len(A) THEN <<carry>>
    ELSE <<(A[j] * k + carry) % Radix>> \o WideMulFrom(A, k, j + 1, (A[j] * k + carry) \div Radix)

WideMul(A, k) == WideMulFrom(A, k, 1, 0)

\* quotient and remainder of A by 0 < k <= 2^14, from the top digit down
WideDivDigit(rest, digit) == [q |-> rest.q \o <<digit>>, r |-> rest.r]

RECURSIVE WideDivFrom(_, _, _, _)
WideDivFrom(A, k, j, rem) ==
    IF j = 0 THEN [q |-> <<>>, r |-> rem]
    ELSE WideDivDigit(WideDivFrom(A, k, j - 1, (rem * Radix + A[j]) % k),
                      (rem * Radix + A[j]) \div k)

WideDiv(A, k) == WideDivFrom(A, k, Len(A), 0)

\* floor(A / 2^s), and whether sticky or any bit shifted out is set
Shifted(dv, sticky) == [q |-> dv.q, sticky |-> sticky \/ dv.r # 0]

RECURSIVE ShiftRight(_, _, _)
ShiftRight(A, s, sticky) ==
    IF s = 0 THEN [q |-> A, sticky |-> sticky]
    ELSE IF s > 14
         THEN ShiftRight(Shifted(WideDiv(A, 16384), sticky).q, s - 14,
                         Shifted(WideDiv(A, 16384), sticky).sticky)
         ELSE Shifted(WideDiv(A, 2^s), sticky)

\* the number of bits of A
RECURSIVE BitLength(_, _)
BitLength(A, j) ==
    IF j = 0 THEN 0
    ELSE IF A[j] = 0 THEN BitLength(A, j - 1)
    ELSE 16 * (j - 1) + (CHOOSE b \in 1..16 : 2^(b - 1) <= A[j] /\ A[j] < 2^b)

\* A + 1
RECURSIVE Increment(_, _)
Increment(A, j) ==
    IF j > Len(A) THEN A \o <<1>>
    ELSE IF A[j] + 1 < Radix THEN [A EXCEPT ![j] = A[j] + 1]
    ELSE Increment([A EXCEPT ![j] = 0], j + 1)

Zero == [m |-> <<0, 0, 0, 0>>, e |-> 0]

\* the double of mantissa A (53 or 54 bits after a carry) and exponent e
Normal(A, e) ==
    IF BitLength(A, Len(A)) = 54 THEN [m |-> SubSeq(WideDiv(A, 2).q, 1, 4), e |-> e + 1]
    ELSE [m |-> SubSeq(A, 1, 4), e |-> e]

\* (2*q + half + a sticky fraction) * 2^(e-1) to the nearest, ties to even
RoundHalf(q, half, sticky, e) ==
    IF half = 1 /\ (sticky \/ q[1] % 2 = 1) THEN Normal(Increment(q, 1), e) ELSE Normal(q, e)

RoundQuotient(dv, sticky, e) == RoundHalf(dv.q, dv.r, sticky, e)

RoundLast(sh, e) == RoundQuotient(WideDiv(sh.q, 2), sh.sticky, e)

\* the double nearest to (A + a sticky fraction) * 2^e, A of at least 54 bits
Nearest(A, sticky, e) ==
    RoundLast(ShiftRight(A, BitLength(A, Len(A)) - 54, sticky), e + BitLength(A, Len(A)) - 53)

\* float * int: x * k for 0 < k < 2^14
FloatMul(x_, k) ==
    IF x_ = Zero THEN Zero ELSE Nearest(WideMul(WideMul(x_.m, k), 2), FALSE, x_.e - 1)

\* int / int: a / b for 0 <= a < 2^31 and 0 < b <= 2^14
NearestQuotient(dv, e) == Nearest(dv.q, dv.r # 0, e)

FloatDiv(a, b) ==
    IF a = 0 THEN Zero
    ELSE NearestQuotient(WideDiv(<<0, 0, 0, 0, 0, a % Radix, a \div Radix>>, b), -80)

CeilShifted(sh) == sh.q[1] + Radix * sh.q[2] + (IF sh.sticky THEN 1 ELSE 0)

\* math.ceil(x) for a double 0 <= x < 2^30
FloatCeil(x_) == CeilShifted(ShiftRight(x_.m, -x_.e, FALSE))

\* x < y for doubles x, y >= 0
FloatLess(x_, y_) ==
    IF y_ = Zero THEN FALSE
    ELSE IF x_ = Zero THEN TRUE
    ELSE IF x_.e # y_.e THEN x_.e < y_.e
    ELSE \E j \in 1..4 : x_.m[j] < y_.m[j] /\ \A k \in (j + 1)..4 : x_.m[k] = y_.m[k]

\* line 554 on doubles
round_up_double(x_, n) == FloatDiv(FloatCeil(FloatMul(x_, Pow10(n))), Pow10(n))

\* round_up(rho, n) for the root rho > 0: the least m with rho <= m / 10**n,
\* found by bisection between lo (rho > lo/10**n) and hi (rho <= hi/10**n)
RECURSIVE CeilRho(_, _, _, _, _, _)
CeilRho(k_bar, n, lo, hi, f_y_, f_c_) ==
    IF hi - lo <= 1 THEN hi
    ELSE LET mid == (lo + hi) \div 2
         IN  IF RhoLessEq(k_bar, Frac(mid, Pow10(n)), f_y_, f_c_)
             THEN CeilRho(k_bar, n, lo, mid, f_y_, f_c_)
             ELSE CeilRho(k_bar, n, mid, hi, f_y_, f_c_)

round_up_rho(k_bar, n, f_y_, f_c_) ==
    Frac(CeilRho(k_bar, n, 0, Ceil(Mul(QuadVertex(f_y_, f_c_), Num(Pow10(n)))), f_y_, f_c_),
         Pow10(n))

\* lines 306-316 of solve_for_rho, with phi the outcome of get_phi(rho)
rho_for_phi(phi, k_bar, f_c_, f_y_) ==
    IF phi.raises # "None" THEN phi
    ELSE IF phi.val # "0.9"
         THEN Raise("NameError", 309)        \* phi < 0.9: m_u is not defined
    ELSE Return(round_up_rho(k_bar, 4, f_y_, f_c_))

solve_for_rho(k_bar, f_c_, beta_1_, f_y_, epsilon_y_) ==
    IF DiscriminantNegative(k_bar, f_y_, f_c_) THEN Raise("ValueError", 300)
    ELSE rho_for_phi(get_phi(k_bar, f_c_, beta_1_, f_y_, epsilon_y_), k_bar, f_c_, f_y_)

calc_reqd_steel(rho, b, d_) == Mul(Mul(rho, b), d_)

get_min_beam(b, d_, f_c_, f_y_) ==
    Max2(Mul(Mul(Div(Mul(Num(3), Sqrt(f_c_)), f_y_), b), d_),
         Mul(Mul(Div(Num(200), f_y_), b), d_))

get_min_slab(b, h_, f_y_) ==
    IF Less(f_y_, Num(60000))
    THEN Raise("UnboundLocalError", 438)    \* assigns min_are_slab, reads min_area_slab
    ELSE Return(Max2(Mul(Mul(Mul(Div(Mul(Frac(18, 10000), Num(60000)), f_y_), b), h_), Num(12)),
                     Mul(Mul(Mul(Frac(14, 10000), b), h_), Num(12))))

\* two thirds of the area in place of four thirds (not the program's)
two_thirds_reqd(reqd_area) == Mul(Frac(2, 3), reqd_area)

four_thirds_reqd(reqd_area) == Mul(Frac(4, 3), reqd_area)

\* get_min_reinforcing as it would be with the slab minimum left out of the
\* branch that needs no four-thirds check
governing_without_slab(min_area_beam, min_area_slab, reqd_area) ==
    IF min_area_slab.raises # "None" THEN min_area_slab
    ELSE IF LessEq(min_area_beam, reqd_area)
         THEN Return(Max2(min_area_beam, reqd_area))
    ELSE Return(Max2(Min2(min_area_beam, four_thirds_reqd(reqd_area)),
                     min_area_slab.val))

\* lines 488-497 of get_min_reinforcing
governing(min_area_beam, min_area_slab, reqd_area) ==
    IF min_area_slab.raises # "None" THEN min_area_slab
    ELSE IF LessEq(min_area_beam, reqd_area)
         THEN Return(Max2(Max2(min_area_beam, min_area_slab.val), reqd_area))
    ELSE Return(Max2(Min2(min_area_beam, four_thirds_reqd(reqd_area)),
                     min_area_slab.val))

get_min_reinforcing(b, reqd_area, d_, h_, f_c_, f_y_) ==
    governing(get_min_beam(b, d_, f_c_, f_y_), get_min_slab(b, h_, f_y_), reqd_area)

(***************************************************************************)
(* Shear quantities (the functions nested in the check_*_shear methods)    *)
(***************************************************************************)
\* WallFooting.check_one_way_shear
wall_get_v_u(q, req_width, wall_width, d_) ==
    Mul(q, Sub(Div(Sub(req_width, Div(wall_width, Num(12))), Num(2)), Div(d_, Num(12))))

wall_get_phi_vn(lam_, f_c_, d_) ==
    Div(Mul(Frac(75, 100), Mul(Mul(Mul(Mul(Num(2), lam_), Sqrt(f_c_)), Num(12)), d_)), Num(1000))

\* ColumnFooting.check_two_way_shear
two_way_get_v_u(col_width, q, area, d_) ==
    Mul(q, Sub(area, Square(Div(Add(col_width, d_), Num(12)))))

\* get_alpha_s as it would be with interior as the default location
get_alpha_s_default(col_loc) ==
    IF col_loc = "edge" THEN 30
    ELSE IF col_loc = "corner" THEN 20
    ELSE 40

get_alpha_s(col_loc) ==
    IF col_loc = "interior" THEN 40
    ELSE IF col_loc = "edge" THEN 30
    ELSE IF col_loc = "corner" THEN 20
    ELSE 0                                   \* falls off the end: returns None

\* lines 979-984 of get_v_c, with unit = lam * sqrt(f_c) * b_0 * d / 1000
min_v_c(unit, alpha_s, b_0, d_) ==
    IF alpha_s = 0 THEN Raise("TypeError", 981)          \* None * float
    ELSE IF b_0 = Num(0) THEN Raise("ZeroDivisionError", 981)
    ELSE Return(Min2(Min2(Mul(Num(4), unit), Mul(Num(6), unit)),
                     Mul(Add(Div(Mul(Num(alpha_s), d_), b_0), Num(2)), unit)))

get_v_c(b_0, col_loc, lam_, f_c_, d_) ==
    min_v_c(Div(Mul(Mul(Mul(lam_, Sqrt(f_c_)), b_0), d_), Num(1000)),
            get_alpha_s(col_loc), b_0, d_)

\* line 957
factored(v_c) == IF v_c.raises # "None" THEN v_c ELSE Return(Mul(Frac(75, 100), v_c.val))

two_way_get_phi_vn(col_width, col_loc, lam_, f_c_, d_) ==
    factored(get_v_c(Mul(Num(4), Add(col_width, d_)), col_loc, lam_, f_c_, d_))

\* ColumnFooting.check_one_way_shear
one_way_get_v_u(q, col_size, width_, length_, d_) ==
    Mul(Mul(q, width_),
        Sub(Div(Sub(length_, Div(col_size, Num(12))), Num(2)), Div(d_, Num(12))))

one_way_get_phi_vn(lam_, f_c_, width_, d_) ==
    Div(Mul(Frac(75, 100),
            Mul(Mul(Mul(Mul(Num(2), lam_), Sqrt(f_c_)), Mul(width_, Num(12))), d_)),
        Num(1000))

(***************************************************************************)
(* round_up_to_precision(x, precision).  Its argument is a rational, or in *)
(* get_dimensions the square root of one: [root |-> TRUE, of |-> v] stands *)
(* for math.sqrt(v).                                                       *)
(***************************************************************************)
Plain(v) == [root |-> FALSE, of |-> v]

RootOf(v) == [root |-> TRUE, of |-> v]

\* math.ceil(x)
CeilOf(x_) ==
    IF x_.root
    THEN CHOOSE c \in 0..1000 : LessEq(x_.of, Num(c * c)) /\ (c = 0 \/ Less(Num((c - 1) * (c - 1)), x_.of))
    ELSE Ceil(x_.of)

\* (temp - x) > 0: the descent goes on while above x (not the program's)
GapPositive(temp, x_, step) ==
    IF x_.root THEN ~SqrtGreaterEq(x_.of, temp)
    ELSE Less(Num(0), Sub(temp, x_.of))

\* (temp - x) > step
GapExceeds(temp, x_, step) ==
    IF x_.root THEN ~SqrtGreaterEq(x_.of, Sub(temp, step))
    ELSE Less(step, Sub(temp, x_.of))

\* temp1 with the half foot taken off whatever the gap (not the program's)
Temp1HalfOff(ceil, x_) == Sub(ceil, Frac(1, 2))

\* lines 522-528: ceil, temp1 (the 0.5 ladder) and the start of temp2
Temp1From(ceil, x_) ==
    IF GapExceeds(ceil, x_, Frac(1, 2)) THEN Sub(ceil, Frac(1, 2)) ELSE ceil

RoundUpTemp1(x_) == Temp1From(Num(CeilOf(x_)), x_)

(***************************************************************************)
(* State                                                                   *)
(***************************************************************************)
VARIABLES
    data,                   \* ex1.py: the requests loaded from input/ex1.json
    i,                      \* ex1.py: how many requests the for loop has taken
    results_list,           \* ex1.py: the dictionaries appended so far
    output,                 \* output/output.json: <<FALSE, <<>>>> until written
    log,                    \* the sink every method writes its narrative to
    lam, beta_1, f_y, epsilon_y,        \* Footing: material properties
    h, d,                               \* Footing: thickness (ft), effective depth (in)
    width, length,                      \* WallFooting.width; ColumnFooting.length, .width
    steel_reqd,                         \* steel required by analysis (local of the design)
    min_steel_area,                     \* WallFooting
    min_steel_area_length, min_steel_area_width,    \* ColumnFooting
    q_u, v_u, phi_vn,                   \* locals of the design and of the shear checks
    x, precision, temp1, temp2,         \* locals of round_up_to_precision
    iters,                  \* iterations the running while loop has made
    pc,                     \* where the program is
    err                     \* the uncaught exception: <<type, source line>>

driver == <<data, i, results_list, output, log>>

material == <<lam, beta_1, f_y, epsilon_y>>

section == <<h, d>>

plan == <<width, length>>

steel == <<steel_reqd, min_steel_area, min_steel_area_length, min_steel_area_width>>

shear == <<q_u, v_u, phi_vn>>

rounding == <<x, precision, temp1, temp2>>

vars == <<driver, material, section, plan, steel, shear, rounding, iters, pc, err>>

NoError == <<"None", 0>>

(***************************************************************************)
(* ex1.py lines 17-28 and 36-45: the fields of the request being designed, *)
(* with the driver's defaults for missing (falsy) values                   *)
(***************************************************************************)
req == data[i]

ftng_type == IF req.ftng_type = "wall" THEN "wall" ELSE "column"

d_l == Num(req.dead_load)

l_l == Num(req.live_load)

f_c == Num(req.f_c)

a_s_p == Num(req.a_s_p)

w_c == IF req.w_c # 0 THEN Num(req.w_c) ELSE Num(150)

w_e == IF req.w_e # 0 THEN Num(req.w_e) ELSE Num(100)

bottom == IF req.bottom_of_ftng # 0 THEN Num(req.bottom_of_ftng) ELSE Num(4)

conc_type == IF req.conc_type # "" THEN req.conc_type ELSE "nw"

col_loc == IF req.col_loc # "" THEN req.col_loc ELSE "interior"

wall_width == Num(req.width)

col_width == Num(req.width)

(***************************************************************************)
(* Requests                                                                *)
(***************************************************************************)
MaxIter == 40

BatchLen == 2

Inch == Frac(1, 12)

BaseRequest ==
    [id |-> 0, ftng_type |-> "wall", dead_load |-> 10, live_load |-> 8,
     f_c |-> 3600, grade |-> 60, a_s_p |-> 3000, w_c |-> 0, w_e |-> 0,
     bottom_of_ftng |-> 0, precision |-> Inch, conc_type |-> "",
     wall_type |-> "concrete", width |-> 12, width_restriction |-> 0, col_loc |-> ""]

\* <<dead_load, live_load>>: kips per foot of wall, kips on a column
Loads == {<<10, 8>>, <<1, 30>>, <<1, 8>>, <<5, 0>>, <<1, 0>>, <<1, 3>>, <<1, 1>>,
          <<1, 150>>, <<50, 40>>, <<200, 150>>}

\* psi; perfect squares, so that math.sqrt(f_c) is exact
Strengths == {2500, 3600}

\* psf
Pressures == {1500, 3000, 4500}

WallRequests ==
    {[BaseRequest EXCEPT !.dead_load = l[1], !.live_load = l[2], !.f_c = s,
                         !.a_s_p = p, !.width = w, !.wall_type = t] :
        l \in Loads, s \in Strengths, p \in Pressures, w \in {8, 12},
        t \in {"concrete", "masonry"}}

ColumnRequests ==
    {[BaseRequest EXCEPT !.ftng_type = "column", !.dead_load = l[1], !.live_load = l[2],
                         !.f_c = s, !.a_s_p = p, !.width = w,
                         !.width_restriction = m, !.conc_type = c] :
        l \in Loads, s \in Strengths, p \in Pressures, w \in {12, 18},
        m \in {0, 3, 6}, c \in {"nw", "lw"}}

\* requests that complete with grade 60, normal-weight or lightweight concrete
Typical ==
    {BaseRequest,
     [BaseRequest EXCEPT !.dead_load = 1, !.live_load = 8, !.f_c = 2500,
                         !.a_s_p = 1500, !.width = 8],
     [BaseRequest EXCEPT !.ftng_type = "column", !.dead_load = 1, !.live_load = 150,
                         !.f_c = 2500, !.width = 12, !.width_restriction = 6,
                         !.conc_type = "lw"],
     [BaseRequest EXCEPT !.ftng_type = "column", !.dead_load = 200, !.live_load = 150,
                         !.f_c = 2500, !.width = 18, !.conc_type = "lw"]}

\* r with one field changed: every category in and out of its enumerated
\* set, a strength above 4000 psi, a coarser precision
Variants(r) ==
    {[r EXCEPT !.grade = g] : g \in {40, 50, 60, 75}}
    \cup {[r EXCEPT !.conc_type = c] : c \in {"nw", "lw", "s_lw", "heavy"}}
    \cup {[r EXCEPT !.wall_type = t] : t \in {"concrete", "masonry", "brick"}}
    \cup {[r EXCEPT !.col_loc = a] : a \in {"interior", "edge", "corner", "centre"}}
    \cup {[r EXCEPT !.f_c = s] : s \in {6400, 10000}}
    \cup {[r EXCEPT !.precision = Frac(1, 2)]}

CategoryRequests == UNION {Variants(r) : r \in Typical}

\* a precision below zero
PrecisionRequests == {[BaseRequest EXCEPT !.precision = Neg(Inch)]}

Requests == WallRequests \cup ColumnRequests \cup CategoryRequests \cup PrecisionRequests

\* the requests that take part in batches of more than one
BatchRequests ==
    {BaseRequest,
     [BaseRequest EXCEPT !.wall_type = "brick"],
     [BaseRequest EXCEPT !.ftng_type = "column", !.dead_load = 1, !.live_load = 150,
                         !.f_c = 2500, !.width = 12, !.width_restriction = 6,
                         !.conc_type = "lw"]}

Batches ==
    {<<r>> : r \in Requests}
    \cup UNION {[1..n -> BatchRequests] : n \in 0..BatchLen}

\* the i-th request carries the identifier i
WithIds(batch) == [k \in 1..Len(batch) |-> [batch[k] EXCEPT !.id = k]]

\* ex1.py before its for loop, whatever the sink
Loaded ==
    /\ data \in {WithIds(b) : b \in Batches}
    /\ i = 0
    /\ results_list = <<>>
    /\ output = <<FALSE, <<>>>>
    /\ lam = None /\ beta_1 = None /\ f_y = None /\ epsilon_y = None
    /\ h = None /\ d = None
    /\ width = None /\ length = None
    /\ steel_reqd = None /\ min_steel_area = None
    /\ min_steel_area_length = None /\ min_steel_area_width = None
    /\ q_u = None /\ v_u = None /\ phi_vn = None
    /\ x = Plain(None) /\ precision = None /\ temp1 = None /\ temp2 = None
    /\ iters = 0
    /\ pc = "for"
    /\ err = NoError

\* ex1.py line 31: the sink is a text file opened for writing
Init == Loaded /\ log = "file"

\* an exception nobody catches: the interpreter prints the traceback and exits
Raised(e) ==
    /\ pc' = "raised"
    /\ err' = <<e.raises, e.line>>

(***************************************************************************)
(* ex1.py lines 15-46 with Footing.__init__ (source.py 43-79) and the      *)
(* first lines of the subclass constructors (565-566, 788-791)             *)
(***************************************************************************)
ForNext ==
    /\ pc = "for"
    /\ i < Len(data)
    /\ i' = i + 1
    /\ LET r == data[i + 1]
           kind == IF r.ftng_type = "wall" THEN "wall" ELSE "column"
           lam_ == IF log = "None"       \* line 108: None has no attribute write
                   THEN Raise("AttributeError", 108)
                   ELSE set_lam(IF r.conc_type # "" THEN r.conc_type ELSE "nw")
           props == get_steel_props(r.grade)
           h_ == IF kind = "wall" THEN Frac(3, 2) ELSE Num(2)
       IN  /\ lam' = lam_.val
           /\ beta_1' = IF lam_.raises = "None" THEN set_beta_1(Num(r.f_c)) ELSE None
           /\ f_y' = IF lam_.raises = "None" /\ props.raises = "None" THEN props.val[1] ELSE None
           /\ epsilon_y' = IF lam_.raises = "None" /\ props.raises = "None" THEN props.val[2] ELSE None
           /\ IF lam_.raises # "None" \/ props.raises # "None"
              THEN /\ Raised(IF lam_.raises # "None" THEN lam_ ELSE props)
                   /\ h' = None /\ d' = None
                   /\ width' = None /\ length' = None
                   /\ min_steel_area' = None
                   /\ min_steel_area_length' = None /\ min_steel_area_width' = None
              ELSE /\ pc' = IF kind = "wall" THEN "get_req_width" ELSE "get_dimensions"
                   /\ err' = NoError
                   /\ h' = h_
                   /\ d' = set_d(h_, kind, Num(8)).val
                   /\ width' = Num(0)
                   /\ length' = IF kind = "wall" THEN None ELSE Num(0)
                   /\ min_steel_area' = IF kind = "wall" THEN Num(0) ELSE None
                   /\ min_steel_area_length' = IF kind = "wall" THEN None ELSE Num(0)
                   /\ min_steel_area_width' = IF kind = "wall" THEN None ELSE Num(0)
    /\ steel_reqd' = None
    /\ q_u' = None /\ v_u' = None /\ phi_vn' = None
    /\ x' = Plain(None) /\ precision' = None /\ temp1' = None /\ temp2' = None
    /\ iters' = 0
    /\ UNCHANGED <<data, results_list, output, log>>

(***************************************************************************)
(* round_up_to_precision (source.py 499-535)                               *)
(***************************************************************************)
\* lines 521-528, entered from `caller`
EnterRoundUp(x_, precision_, caller) ==
    /\ x' = x_
    /\ precision' = precision_
    /\ temp1' = RoundUpTemp1(x_)
    /\ temp2' = Num(CeilOf(x_))
    /\ iters' = 0
    /\ pc' = caller
    /\ err' = NoError

RoundingFor == {"round_up_to_precision:get_req_width",
                "round_up_to_precision:get_dimensions",
                "round_up_to_precision:check_one_way_shear",
                "round_up_to_precision:while"}

\* lines 531-532: one pass of the while loop
RoundUpLoop ==
    /\ pc \in RoundingFor
    /\ GapExceeds(temp2, x, precision)
    /\ iters < MaxIter
    /\ temp2' = Sub(temp2, precision)
    /\ iters' = iters + 1
    /\ UNCHANGED <<driver, material, section, plan, steel, shear, x, precision, temp1, pc, err>>

\* line 535, once the loop has ended
RoundUpResult == Min2(temp1, temp2)

(***************************************************************************)
(* WallFooting.design_wall_footing (source.py 571-604)                     *)
(***************************************************************************)
\* get_req_width, lines 632-637, up to the rounding loop
GetReqWidth ==
    /\ pc = "get_req_width"
    /\ LET net == net_asp(a_s_p, w_e, bottom, h, w_c)
       IN  IF net = Num(0)
           THEN /\ Raised(Raise("ZeroDivisionError", 635))
                /\ UNCHANGED <<rounding, iters>>
           ELSE EnterRoundUp(Plain(Div(Add(d_l, l_l), net)), req.precision,
                             "round_up_to_precision:get_req_width")
    /\ UNCHANGED <<driver, material, section, plan, steel, shear>>

\* get_req_width returns (642); q_u (598); check_one_way_shear up to its
\* first loop test (684-689)
WallWidthReturn ==
    /\ pc = "round_up_to_precision:get_req_width"
    /\ ~GapExceeds(temp2, x, precision)
    /\ width' = RoundUpResult
    /\ LET q == factored_soil_pressure(d_l, l_l, RoundUpResult)
       IN  IF q.raises # "None"
           THEN /\ Raised(q)
                /\ UNCHANGED shear
           ELSE /\ q_u' = q.val
                /\ v_u' = wall_get_v_u(q.val, RoundUpResult, wall_width, d)
                /\ phi_vn' = wall_get_phi_vn(lam, f_c, d)
                /\ pc' = "check_one_way_shear:wall"
                /\ err' = NoError
    /\ iters' = 0
    /\ UNCHANGED <<driver, material, section, length, steel, rounding>>

\* lines 692-699: one pass of the over-designed loop
WallShearDecrement ==
    /\ pc = "check_one_way_shear:wall"
    /\ LessEq(Mul(Frac(15, 10), v_u), phi_vn)
    /\ iters < MaxIter
    /\ LET h_ == Sub(h, Inch)
           d_ == set_d(h_, "wall", Num(8)).val
       IN  /\ h' = h_
           /\ d' = d_
           /\ v_u' = wall_get_v_u(q_u, width, wall_width, d_)
           /\ phi_vn' = wall_get_phi_vn(lam, f_c, d_)
    /\ iters' = iters + 1
    /\ UNCHANGED <<driver, material, plan, steel, q_u, rounding, pc, err>>

\* lines 702-705: under-designed, so solve for d; round_up_to_precision is
\* called with one argument and raises TypeError before self.d is assigned
WallShearDirectSolve ==
    /\ pc = "check_one_way_shear:wall"
    /\ ~LessEq(Mul(Frac(15, 10), v_u), phi_vn)
    /\ Less(phi_vn, v_u)
    /\ Raised(Raise("TypeError", 704))
    /\ UNCHANGED <<driver, material, section, plan, steel, shear, rounding, iters>>

\* lines 702, 713: neither over- nor under-designed
WallShearOK ==
    /\ pc = "check_one_way_shear:wall"
    /\ ~LessEq(Mul(Frac(15, 10), v_u), phi_vn)
    /\ ~Less(phi_vn, v_u)
    /\ pc' = "get_steel_reqd:wall"
    /\ UNCHANGED <<driver, material, section, plan, steel, shear, rounding, iters, err>>

\* what get_steel_reqd (both classes) does with the moment m_u on a section
\* of width b: lines 748-752 and 1116-1120
SteelFromRho(rho, b) ==
    IF rho.raises # "None" THEN rho ELSE Return(calc_reqd_steel(rho.val, b, d))

SteelFromKBar(k_bar, b) ==
    IF k_bar.raises # "None" THEN k_bar
    ELSE SteelFromRho(solve_for_rho(k_bar.val, f_c, beta_1, f_y, epsilon_y), b)

SteelFromMoment(m_u, b) == SteelFromKBar(get_k_bar(m_u, Frac(9, 10), b, d), b)

\* WallFooting.get_steel_reqd (716-754)
wall_critical_length ==
    Add(Div(Sub(width, Div(wall_width, Num(12))), Num(2)),
        IF req.wall_type = "masonry" THEN Div(Mul(Frac(25, 100), wall_width), Num(12))
        ELSE Num(0))

wall_get_steel_reqd ==
    IF req.wall_type \notin {"masonry", "concrete"}
    THEN Raise("UnboundLocalError", 742)         \* l is read unassigned
    ELSE SteelFromMoment(Div(Mul(q_u, Square(wall_critical_length)), Num(2)), Num(12))

\* line 602
WallSteelReqd ==
    /\ pc = "get_steel_reqd:wall"
    /\ \E a \in {wall_get_steel_reqd} :
           IF a.raises # "None"
           THEN /\ Raised(a)
                /\ UNCHANGED steel_reqd
           ELSE /\ steel_reqd' = a.val
                /\ pc' = "get_min_reinforcing:wall"
                /\ err' = NoError
    /\ UNCHANGED <<driver, material, section, plan, min_steel_area,
                   min_steel_area_length, min_steel_area_width, shear, rounding, iters>>

\* line 604
WallMinReinforcing ==
    /\ pc = "get_min_reinforcing:wall"
    /\ \E g \in {get_min_reinforcing(Num(12), steel_reqd, d, h, f_c, f_y)} :
           IF g.raises # "None"
           THEN /\ Raised(g)
                /\ UNCHANGED min_steel_area
           ELSE /\ min_steel_area' = g.val
                /\ pc' = "done"
                /\ err' = NoError
    /\ UNCHANGED <<driver, material, section, plan, steel_reqd,
                   min_steel_area_length, min_steel_area_width, shear, rounding, iters>>

(***************************************************************************)
(* ColumnFooting.design_column_footing (source.py 796-854)                 *)
(***************************************************************************)
\* get_dimensions, lines 883-897, up to the rounding loop
GetDimensions ==
    /\ pc = "get_dimensions"
    /\ LET net == net_asp(a_s_p, w_e, bottom, h, w_c)
           reqd_area == Div(Add(d_l, l_l), net)
       IN  IF net = Num(0)
           THEN /\ Raised(Raise("ZeroDivisionError", 886))
                /\ UNCHANGED <<rounding, iters>>
           ELSE IF req.width_restriction # 0
           THEN EnterRoundUp(Plain(Div(reqd_area, Num(req.width_restriction))),
                             req.precision, "round_up_to_precision:get_dimensions")
           ELSE IF Less(reqd_area, Num(0))
           THEN /\ Raised(Raise("ValueError", 897))       \* math.sqrt of a negative
                /\ UNCHANGED <<rounding, iters>>
           ELSE EnterRoundUp(RootOf(reqd_area), req.precision,
                             "round_up_to_precision:get_dimensions")
    /\ UNCHANGED <<driver, material, section, plan, steel, shear>>

\* get_dimensions returns (893-905); area and q_u (825-827);
\* check_two_way_shear up to its first loop test (995-1000)
DimensionsReturn ==
    /\ pc = "round_up_to_precision:get_dimensions"
    /\ ~GapExceeds(temp2, x, precision)
    /\ LET l == RoundUpResult
           w == IF req.width_restriction # 0 THEN Num(req.width_restriction) ELSE RoundUpResult
           area == Mul(l, w)
           q == factored_soil_pressure(d_l, l_l, area)
           cap == two_way_get_phi_vn(col_width, col_loc, lam, f_c, d)
       IN  /\ length' = l
           /\ width' = w
           /\ IF q.raises # "None"
              THEN /\ Raised(q)
                   /\ UNCHANGED shear
              ELSE /\ q_u' = q.val
                   /\ v_u' = two_way_get_v_u(col_width, q.val, area, d)
                   /\ IF cap.raises # "None"
                      THEN /\ Raised(cap)
                           /\ UNCHANGED phi_vn
                      ELSE /\ phi_vn' = cap.val
                           /\ pc' = "check_two_way_shear:while_1"
                           /\ err' = NoError
    /\ iters' = 0
    /\ UNCHANGED <<driver, material, section, steel, rounding>>

\* one pass of either loop of check_two_way_shear: the thickness moves by
\* step, set_d("colmumn") takes the column branch, both quantities are redone
TwoWayAdjust(step, loop) ==
    LET h_ == Add(h, step)
        d_ == set_d(h_, "colmumn", Num(8)).val
        cap == two_way_get_phi_vn(col_width, col_loc, lam, f_c, d_)
    IN  /\ h' = h_
        /\ d' = d_
        /\ v_u' = two_way_get_v_u(col_width, q_u, Mul(length, width), d_)
        /\ IF cap.raises # "None"
           THEN /\ Raised(cap)
                /\ UNCHANGED phi_vn
           ELSE /\ phi_vn' = cap.val
                /\ pc' = loop
                /\ err' = NoError

\* lines 1003-1009
TwoWayIncrement ==
    /\ pc = "check_two_way_shear:while_1"
    /\ Less(phi_vn, v_u)
    /\ iters < MaxIter
    /\ TwoWayAdjust(Inch, "check_two_way_shear:while_1")
    /\ iters' = iters + 1
    /\ UNCHANGED <<driver, material, plan, steel, q_u, rounding>>

\* the first loop has ended, or the second is running
InSecondLoop ==
    \/ pc = "check_two_way_shear:while_1" /\ ~Less(phi_vn, v_u)
    \/ pc = "check_two_way_shear:while_2"

\* lines 1012-1018
TwoWayDecrement ==
    /\ InSecondLoop
    /\ LessEq(Mul(Frac(15, 10), v_u), phi_vn)
    /\ pc = "check_two_way_shear:while_1" \/ iters < MaxIter
    /\ TwoWayAdjust(Neg(Inch), "check_two_way_shear:while_2")
    /\ iters' = IF pc = "check_two_way_shear:while_1" THEN 1 ELSE iters + 1
    /\ UNCHANGED <<driver, material, plan, steel, q_u, rounding>>

\* check_two_way_shear returns (1020); check_one_way_shear up to its first
\* loop test (1061-1065)
TwoWayReturn ==
    /\ InSecondLoop
    /\ ~LessEq(Mul(Frac(15, 10), v_u), phi_vn)
    /\ v_u' = one_way_get_v_u(q_u, col_width, width, length, d)
    /\ phi_vn' = one_way_get_phi_vn(lam, f_c, width, d)
    /\ pc' = "check_one_way_shear:column"
    /\ iters' = 0
    /\ UNCHANGED <<driver, material, section, plan, steel, q_u, rounding, err>>

\* lines 1068-1072: the thickness is reduced, then set_d(self.h, "column")
\* binds ftng_type to the thickness and bar_size to "column", and raises
OneWayDecrement ==
    /\ pc = "check_one_way_shear:column"
    /\ LessEq(Mul(Frac(15, 10), v_u), phi_vn)
    /\ LET h_ == Sub(h, Inch)
           d_ == set_d(h_, "<float>", Str)
       IN  /\ h' = h_
           /\ IF d_.raises # "None"
              THEN /\ Raised(d_)
                   /\ UNCHANGED <<d, v_u, phi_vn>>
              ELSE /\ d' = d_.val
                   /\ v_u' = one_way_get_v_u(q_u, col_width, width, length, d_.val)
                   /\ phi_vn' = one_way_get_phi_vn(lam, f_c, width, d_.val)
                   /\ UNCHANGED <<pc, err>>
    /\ iters' = iters + 1
    /\ UNCHANGED <<driver, material, plan, steel, q_u, rounding>>

\* lines 1077-1080: under-designed, so solve for d, rounding up to 0.5
OneWayDirectSolve ==
    /\ pc = "check_one_way_shear:column"
    /\ ~LessEq(Mul(Frac(15, 10), v_u), phi_vn)
    /\ Less(phi_vn, v_u)
    /\ EnterRoundUp(Plain(Div(Mul(v_u, Num(1000)),
                              Mul(Mul(Mul(Mul(Mul(Num(2), lam), Frac(75, 100)), Sqrt(f_c)),
                                      width), Num(12)))),
                    Frac(1, 2), "round_up_to_precision:check_one_way_shear")
    /\ UNCHANGED <<driver, material, section, plan, steel, shear>>

\* lines 1079-1084: d and h are assigned, the capacity is redone once
OneWaySolveReturn ==
    /\ pc = "round_up_to_precision:check_one_way_shear"
    /\ ~GapExceeds(temp2, x, precision)
    /\ d' = RoundUpResult
    /\ h' = Div(Add(Add(RoundUpResult, Num(3)), Div(Num(8), Num(8))), Num(12))
    /\ phi_vn' = one_way_get_phi_vn(lam, f_c, width, RoundUpResult)
    /\ pc' = "get_steel_reqd:length"
    /\ iters' = 0
    /\ UNCHANGED <<driver, material, plan, steel, q_u, v_u, rounding, err>>

\* lines 1077, 1086: neither over- nor under-designed
OneWayOK ==
    /\ pc = "check_one_way_shear:column"
    /\ ~LessEq(Mul(Frac(15, 10), v_u), phi_vn)
    /\ ~Less(phi_vn, v_u)
    /\ pc' = "get_steel_reqd:length"
    /\ UNCHANGED <<driver, material, section, plan, steel, shear, rounding, iters, err>>

\* ColumnFooting.get_steel_reqd (1089-1122)
column_get_steel_reqd(l, w) ==
    SteelFromMoment(Div(Mul(Mul(q_u, w), Square(l)), Num(2)), Mul(w, Num(12)))

\* lines 836-842 (min_steel) and 844-851 (the other direction)
Both(a, g) == IF g.raises # "None" THEN g ELSE Return(<<a, g.val>>)

WithMinimum(a, b) ==
    IF a.raises # "None" THEN a
    ELSE Both(a.val, get_min_reinforcing(b, a.val, d, h, f_c, f_y))

SteelAlong(side, across) ==
    WithMinimum(column_get_steel_reqd(Div(Sub(side, Div(col_width, Num(12))), Num(2)), across),
                Mul(across, Num(12)))

\* the other direction is designed whatever the plan (not the program's)
NotSquareAlways(width_, length_) == TRUE

\* line 843: self.width != self.length
NotSquare(width_, length_) == width_ # length_

\* lines 836-844, 852-854
SteelLength ==
    /\ pc = "get_steel_reqd:length"
    /\ \E a \in {SteelAlong(length, width)} :
           IF a.raises # "None"
           THEN /\ Raised(a)
                /\ UNCHANGED steel
           ELSE /\ steel_reqd' = a.val[1]
                /\ min_steel_area_length' = a.val[2]
                /\ min_steel_area_width' = a.val[2]
                /\ pc' = IF NotSquare(width, length) THEN "get_steel_reqd:width" ELSE "done"
                /\ err' = NoError
                /\ UNCHANGED min_steel_area
    /\ UNCHANGED <<driver, material, section, plan, shear, rounding, iters>>

\* lines 845-851
SteelWidth ==
    /\ pc = "get_steel_reqd:width"
    /\ \E a \in {SteelAlong(width, length)} :
           IF a.raises # "None"
           THEN /\ Raised(a)
                /\ UNCHANGED steel
           ELSE /\ steel_reqd' = a.val[1]
                /\ min_steel_area_width' = a.val[2]
                /\ pc' = "done"
                /\ err' = NoError
                /\ UNCHANGED <<min_steel_area, min_steel_area_length>>
    /\ UNCHANGED <<driver, material, section, plan, shear, rounding, iters>>

(***************************************************************************)
(* ex1.py lines 48-56                                                      *)
(***************************************************************************)
\* Python's round(x, n): to the nearest multiple of 10**-n, ties to even
\* the integer nearest to q, the even one of two equally near
RoundHalfEven(q, f) ==
    IF Less(Sub(q, Num(f)), Frac(1, 2)) THEN f
    ELSE IF Less(Frac(1, 2), Sub(q, Num(f))) THEN f + 1
    ELSE IF f % 2 = 0 THEN f
    ELSE f + 1

NearestInteger(q) == RoundHalfEven(q, Floor(q))

\* round(x, n)
Round(x_, n) == Frac(NearestInteger(Mul(x_, Num(Pow10(n)))), Pow10(n))

\* WallFooting.ftng_dict (756-771) and ColumnFooting.ftng_dict (1124-1140)
ftng_dict ==
    IF ftng_type = "wall"
    THEN [id |-> req.id, ftng_width |-> Round(width, 3), ftng_depth |-> Round(h, 3),
          min_steel |-> Round(min_steel_area, 2)]
    ELSE [id |-> req.id, ftng_dimensions |-> <<length, width>>, ftng_depth |-> Round(h, 3),
          min_steel_in_long_dim |-> Round(min_steel_area_length, 3),
          min_steel_in_short_dim |-> Round(min_steel_area_width, 3)]

\* lines 49-52: print the footing, append its dictionary
AppendResult ==
    /\ pc = "done"
    /\ results_list' = Append(results_list, ftng_dict)
    /\ pc' = "for"
    /\ UNCHANGED <<data, i, output, log, material, section, plan, steel, shear, rounding, iters, err>>

\* lines 55-56, after the last request
DumpOutput ==
    /\ pc = "for"
    /\ i = Len(data)
    /\ output' = <<TRUE, results_list>>
    /\ pc' = "exit"
    /\ UNCHANGED <<data, i, results_list, log, material, section, plan, steel, shear, rounding, iters, err>>

Next ==
    \/ ForNext
    \/ RoundUpLoop
    \/ GetReqWidth
    \/ WallWidthReturn
    \/ WallShearDecrement
    \/ WallShearDirectSolve
    \/ WallShearOK
    \/ WallSteelReqd
    \/ WallMinReinforcing
    \/ GetDimensions
    \/ DimensionsReturn
    \/ TwoWayIncrement
    \/ TwoWayDecrement
    \/ TwoWayReturn
    \/ OneWayDecrement
    \/ OneWayDirectSolve
    \/ OneWaySolveReturn
    \/ OneWayOK
    \/ SteelLength
    \/ SteelWidth
    \/ AppendResult
    \/ DumpOutput

Spec == Init /\ [][Next]_vars

(***************************************************************************)
(* The designs with either sink: the text file of ex1.py, or None for a    *)
(* caller that passes no sink to the constructors (source.py 43, 66)       *)
(***************************************************************************)
Sinks == {"file", "None"}

SinkInit == Loaded /\ log \in Sinks

SinkSpec == SinkInit /\ [][Next]_vars

(***************************************************************************)
(* get_min_reinforcing on its own: every combination of section width b   *)
(* (inches, kept in `width`), effective depth, thickness, concrete         *)
(* strength, steel grade and steel area required by analysis              *)
(***************************************************************************)
MinWidths == {Num(12), Num(72)}

MinDepths == {Frac(-1, 2), Num(2), Frac(29, 2), Num(20)}

MinThicknesses == {Frac(1, 2), Frac(3, 2), Num(2)}

MinAreas == {Num(-1), Num(0), Frac(1, 10), Frac(1, 2), Num(1), Num(3)}

MinInit ==
    /\ \E s \in {2500, 6400}, g \in {40, 60, 75} :
          /\ data = WithIds(<<[BaseRequest EXCEPT !.f_c = s, !.grade = g]>>)
          /\ f_y = get_steel_props(g).val[1]
          /\ epsilon_y = get_steel_props(g).val[2]
          /\ beta_1 = set_beta_1(Num(s))
    /\ i = 1
    /\ results_list = <<>>
    /\ log = "file"
    /\ output = <<FALSE, <<>>>>
    /\ lam = Num(1)
    /\ h \in MinThicknesses
    /\ d \in MinDepths
    /\ width \in MinWidths
    /\ length = None
    /\ steel_reqd \in MinAreas
    /\ min_steel_area = None
    /\ min_steel_area_length = None /\ min_steel_area_width = None
    /\ q_u = None /\ v_u = None /\ phi_vn = None
    /\ x = Plain(None) /\ precision = None /\ temp1 = None /\ temp2 = None
    /\ iters = 0
    /\ pc = "get_min_reinforcing"
    /\ err = NoError

\* lines 485-497
MinReinforcing ==
    /\ pc = "get_min_reinforcing"
    /\ \E g \in {get_min_reinforcing(width, steel_reqd, d, h, f_c, f_y)} :
           IF g.raises # "None"
           THEN /\ Raised(g)
                /\ UNCHANGED min_steel_area
           ELSE /\ min_steel_area' = g.val
                /\ pc' = "get_min_reinforcing:return"
                /\ err' = NoError
    /\ UNCHANGED <<driver, material, section, plan, steel_reqd,
                   min_steel_area_length, min_steel_area_width, shear, rounding, iters>>

MinNext == MinReinforcing

MinSpec == MinInit /\ [][MinNext]_vars

(***************************************************************************)
(* round_up_to_precision on its own: every combination of a number to be   *)
(* rounded (a rational or a square root, kept in `x`) and a positive       *)
(* precision; the value returned is kept in `width`                        *)
(***************************************************************************)
RoundXs ==
    {Plain(Frac(5, 2)), Plain(Frac(45, 4)), Plain(Frac(23, 2)), Plain(Frac(67, 6)),
     Plain(Frac(35, 12)), Plain(Frac(7, 3)), Plain(Frac(1, 100)), Plain(Frac(299, 100)),
     Plain(Num(12)), Plain(Num(0)), Plain(Frac(-5, 2)), Plain(Frac(-1, 3)),
     RootOf(Num(37)), RootOf(Frac(25, 3)), RootOf(Num(16))}

RoundPrecisions ==
    {Inch, Frac(1, 6), Frac(1, 4), Frac(1, 3), Frac(1, 2), Frac(3, 4), Num(1), Num(2)}

RoundInit ==
    /\ data = WithIds(<<BaseRequest>>)
    /\ i = 1
    /\ results_list = <<>>
    /\ log = "file"
    /\ output = <<FALSE, <<>>>>
    /\ lam = None /\ beta_1 = None /\ f_y = None /\ epsilon_y = None
    /\ h = None /\ d = None
    /\ width = None /\ length = None
    /\ steel_reqd = None /\ min_steel_area = None
    /\ min_steel_area_length = None /\ min_steel_area_width = None
    /\ q_u = None /\ v_u = None /\ phi_vn = None
    /\ x \in RoundXs /\ precision \in RoundPrecisions
    /\ temp1 = None /\ temp2 = None
    /\ iters = 0
    /\ pc = "round_up_to_precision"
    /\ err = NoError

\* lines 521-528
RoundUpEnter ==
    /\ pc = "round_up_to_precision"
    /\ EnterRoundUp(x, precision, "round_up_to_precision:while")
    /\ UNCHANGED <<driver, material, section, plan, steel, shear>>

\* line 535
RoundUpReturn ==
    /\ pc = "round_up_to_precision:while"
    /\ ~GapExceeds(temp2, x, precision)
    /\ width' = RoundUpResult
    /\ pc' = "round_up_to_precision:return"
    /\ UNCHANGED <<driver, material, section, length, steel, shear, rounding, iters, err>>

RoundNext == RoundUpEnter \/ RoundUpLoop \/ RoundUpReturn

RoundSpec == RoundInit /\ [][RoundNext]_vars

(***************************************************************************)
(* round_up on its own, on doubles: the argument (kept in `x`) is the      *)
(* float a / b of two small integers or the float next above 1.9, the      *)
(* number of decimals n is kept in `precision`; `temp1` receives           *)
(* round_up(x, n) and `temp2` receives round_up(round_up(x, n), n)         *)
(***************************************************************************)
UpArguments ==
    {FloatDiv(a, b) : a \in {1, 2, 3, 5, 7, 19}, b \in {3, 10, 15, 16, 100}}
        \cup {[m |-> <<26215, 26214, 26214, 30>>, e |-> -52]}

UpInit ==
    /\ data = WithIds(<<BaseRequest>>)
    /\ i = 1
    /\ results_list = <<>>
    /\ log = "file"
    /\ output = <<FALSE, <<>>>>
    /\ lam = None /\ beta_1 = None /\ f_y = None /\ epsilon_y = None
    /\ h = None /\ d = None
    /\ width = None /\ length = None
    /\ steel_reqd = None /\ min_steel_area = None
    /\ min_steel_area_length = None /\ min_steel_area_width = None
    /\ q_u = None /\ v_u = None /\ phi_vn = None
    /\ x \in UpArguments /\ precision \in 0..4
    /\ temp1 = None /\ temp2 = None
    /\ iters = 0
    /\ pc = "round_up"
    /\ err = NoError

\* line 554: round_up(x, n)
RoundUp ==
    /\ pc = "round_up"
    /\ temp1' = round_up_double(x, precision)
    /\ pc' = "round_up:return"
    /\ UNCHANGED <<driver, material, section, plan, steel, shear, x, precision, temp2, iters, err>>

\* line 554 again, on the value just returned
RoundUpAgain ==
    /\ pc = "round_up:return"
    /\ temp2' = round_up_double(temp1, precision)
    /\ pc' = "round_up:again"
    /\ UNCHANGED <<driver, material, section, plan, steel, shear, x, precision, temp1, iters, err>>

UpNext == RoundUp \/ RoundUpAgain

UpSpec == UpInit /\ [][UpNext]_vars

(***************************************************************************)
(* Properties                                                              *)
(***************************************************************************)
Column == i > 0 /\ ftng_type = "column"

\* the capacity was computed and is at least the required strength
Covers(capacity, required) == capacity.raises = "None" /\ LessEq(required, capacity.val)

\* C1: a column design that has reached Done is not under-designed: at the
\* final d and plan dimensions the punching capacity is at least the punching
\* V_u and the one-way capacity is at least the one-way V_u.
C1_DoneNotUnderDesigned ==
    (Column /\ pc = "done") =>
        /\ Covers(two_way_get_phi_vn(col_width, col_loc, lam, f_c, d),
                  two_way_get_v_u(col_width, q_u, Mul(length, width), d))
        /\ Covers(Return(one_way_get_phi_vn(lam, f_c, width, d)),
                  one_way_get_v_u(q_u, col_width, width, length, d))

\* the wall's one-way capacity is below V_u once the over-design loop is over
WallUnderDesigned ==
    /\ pc = "check_one_way_shear:wall"
    /\ ~LessEq(Mul(Frac(15, 10), v_u), phi_vn)
    /\ Less(phi_vn, v_u)

\* C2: when the wall's capacity is below V_u after the over-design loop, the
\* direct-solve correction completes: the design goes on to the moment step
\* with thickness (d + 3 + 0.5) / 12 and a capacity of at least V_u.
C2_WallDirectSolveCompletes ==
    [][WallUnderDesigned =>
           /\ pc' = "get_steel_reqd:wall"
           /\ h' = Div(Add(d', Frac(7, 2)), Num(12))
           /\ LessEq(v_u', phi_vn')]_vars

\* a while loop of the design is about to make another pass
LoopRunning ==
    \/ pc \in RoundingFor /\ GapExceeds(temp2, x, precision)
    \/ pc = "check_one_way_shear:wall" /\ LessEq(Mul(Frac(15, 10), v_u), phi_vn)
    \/ pc = "check_two_way_shear:while_1" /\ Less(phi_vn, v_u)
    \/ InSecondLoop /\ LessEq(Mul(Frac(15, 10), v_u), phi_vn)
    \/ pc = "check_one_way_shear:column" /\ LessEq(Mul(Frac(15, 10), v_u), phi_vn)

\* C3: every loop of a design stops within the iteration bound: a loop that
\* has made MaxIter passes is not about to make another one, the request
\* having ended with NonConvergent instead.
C3_LoopsStopWithinBound ==
    /\ iters >= MaxIter => ~LoopRunning
    /\ (pc = "raised" /\ iters >= MaxIter) => err[1] = "NonConvergent"

\* C4: a failing request does not abort the batch: once the run has ended,
\* by an uncaught exception or after the last request, every result that a
\* request of the batch has produced is in the aggregated output, and the
\* failed request has no entry in it.
C4_FailureDoesNotAbortBatch ==
    pc \in {"raised", "exit"} =>
        /\ output[1]
        /\ \A k \in 1..Len(results_list) :
              \E j \in 1..Len(output[2]) : output[2][j] = results_list[k]
        /\ pc = "raised" => \A j \in 1..Len(output[2]) : output[2][j].id # i

\* a category of the request is outside its enumerated set (a missing
\* conc_type or col_loc takes the driver's default)
InvalidConcType(r) == r.conc_type \notin {"", "nw", "lw", "s_lw"}

InvalidGrade(r) == r.grade \notin {40, 60, 75}

InvalidWallType(r) == r.ftng_type = "wall" /\ r.wall_type \notin {"masonry", "concrete"}

InvalidColLoc(r) ==
    r.ftng_type # "wall" /\ r.col_loc \notin {"", "interior", "edge", "corner"}

InvalidCategory(r) ==
    InvalidConcType(r) \/ InvalidGrade(r) \/ InvalidWallType(r) \/ InvalidColLoc(r)

\* C5: a request with a category outside its enumerated set produces no
\* footing result: it never reaches Done and nothing is appended for it; an
\* invalid concrete type or grade ends construction with the exception of
\* the line that reads the unassigned factor, an invalid column location
\* never gets past the first punching capacity, an invalid wall type never
\* gets past the moment step.
C5_InvalidCategoryFails ==
    (i > 0 /\ InvalidCategory(req)) =>
        /\ pc # "done"
        /\ \A k \in 1..Len(results_list) : results_list[k].id # i
        /\ InvalidConcType(req) => pc = "raised" /\ err = <<"UnboundLocalError", 109>>
        /\ (InvalidGrade(req) /\ ~InvalidConcType(req)) =>
               pc = "raised" /\ err = <<"UnboundLocalError", 161>>
        /\ InvalidColLoc(req) =>
               pc \in {"get_dimensions", "round_up_to_precision:get_dimensions", "raised"}
        /\ InvalidWallType(req) => pc # "get_min_reinforcing:wall"

C5_Witness ==
    /\ i > 0
    /\ pc = "raised"
    /\ \/ InvalidColLoc(req) /\ err = <<"TypeError", 981>>
       \/ InvalidWallType(req) /\ err = <<"UnboundLocalError", 742>>

\* the moment step of the design is about to run with a valid wall type
AtSteelStep ==
    \/ pc = "get_steel_reqd:wall" /\ req.wall_type \in {"masonry", "concrete"}
    \/ pc \in {"get_steel_reqd:length", "get_steel_reqd:width"}

\* the k_bar that step hands to solve_for_rho (lines 745-748, 1111-1116)
CriticalLength(side) == Div(Sub(side, Div(col_width, Num(12))), Num(2))

StepKBar ==
    IF pc = "get_steel_reqd:wall"
    THEN get_k_bar(Div(Mul(q_u, Square(wall_critical_length)), Num(2)), Frac(9, 10), Num(12), d)
    ELSE IF pc = "get_steel_reqd:length"
    THEN get_k_bar(Div(Mul(Mul(q_u, width), Square(CriticalLength(length))), Num(2)),
                   Frac(9, 10), Mul(width, Num(12)), d)
    ELSE get_k_bar(Div(Mul(Mul(q_u, length), Square(CriticalLength(width))), Num(2)),
                   Frac(9, 10), Mul(length, Num(12)), d)

\* solve_for_rho raises ValueError exactly on a negative discriminant and
\* returns a ratio otherwise
FailsOnlyOnNegativeDiscriminant(k_bar) ==
    k_bar.raises = "None" =>
        solve_for_rho(k_bar.val, f_c, beta_1, f_y, epsilon_y).raises =
            (IF DiscriminantNegative(k_bar.val, f_y, f_c) THEN "ValueError" ELSE "None")

\* C6: solve_for_rho fails (ValueError, the NonPhysicalSection kind) exactly
\* when the discriminant is negative and returns a reinforcement ratio
\* otherwise.
C6_RhoFailsOnlyOnNegativeDiscriminant == AtSteelStep => FailsOnlyOnNegativeDiscriminant(StepKBar)

Corrects(phi) == phi.raises = "None" /\ phi.val # "0.9"

\* the strain check on the first rho gives phi < 0.9
PhiBelowLimit(k_bar) ==
    /\ k_bar.raises = "None"
    /\ ~DiscriminantNegative(k_bar.val, f_y, f_c)
    /\ Corrects(get_phi(k_bar.val, f_c, beta_1, f_y, epsilon_y))

\* C7: when the strain check on the first rho yields phi < 0.9, solve_for_rho
\* re-solves once and returns a rho; the design continues to the steel-area
\* step: the step that follows is not an exception.
C7_CorrectedPhiReturnsRho ==
    [][(AtSteelStep /\ PhiBelowLimit(StepKBar)) => pc' # "raised"]_vars

\* C8: the governing minimum reinforcement returned by get_min_reinforcing is
\* at least the slab minimum, and at least the beam minimum whenever the
\* required area is at least the beam minimum (no four-thirds exception).
C8_GoverningAtLeastMinimums ==
    pc = "get_min_reinforcing:return" =>
        /\ LessEq(get_min_slab(width, h, f_y).val, min_steel_area)
        /\ LessEq(get_min_beam(width, d, f_c, f_y), steel_reqd) =>
               LessEq(get_min_beam(width, d, f_c, f_y), min_steel_area)

\* the branch without the four-thirds check, with the slab minimum governing
C8_Witness ==
    /\ pc = "get_min_reinforcing:return"
    /\ LessEq(get_min_beam(width, d, f_c, f_y), steel_reqd)
    /\ Less(steel_reqd, get_min_slab(width, h, f_y).val)
    /\ min_steel_area = get_min_slab(width, h, f_y).val

\* C9: get_min_slab returns a value for every steel grade:
\* 0.0020 * width * thickness * 12 when f_y < 60000, and
\* max(0.0018 * 60000 / f_y, 0.0014) * width * thickness * 12 otherwise.
C9_MinSlabReturnsForEveryGrade ==
    pc = "get_min_reinforcing:wall" =>
        get_min_slab(Num(12), h, f_y) =
            Return(IF Less(f_y, Num(60000))
                   THEN Mul(Mul(Mul(Frac(20, 10000), Num(12)), h), Num(12))
                   ELSE Mul(Mul(Mul(Max2(Div(Mul(Frac(18, 10000), Num(60000)), f_y),
                                         Frac(14, 10000)),
                                    Num(12)), h), Num(12)))

\* 0.5 in for a wall footing, 1 in for a column footing
bar_allowance == IF ftng_type = "wall" THEN Frac(1, 2) ELSE Num(1)

\* C10: while a design is running or has completed, d = h * 12 - 3 -
\* bar_allowance: after construction, after every increment and decrement
\* and after the direct-solve correction, no step reads a d that is stale
\* for the current h.
C10_DepthFollowsThickness ==
    (i > 0 /\ pc # "raised") => d = Sub(Sub(Mul(h, Num(12)), Num(3)), bar_allowance)

\* the direct-solve correction has assigned d and then h
C10_Witness ==
    /\ pc = "get_steel_reqd:length"
    /\ precision = Frac(1, 2)
    /\ d = RoundUpResult
    /\ h # Num(2)

\* v >= x for an argument x of round_up_to_precision
NotBelow(v, x_) == IF x_.root THEN ~SqrtGreater(x_.of, v) ELSE LessEq(x_.of, v)

\* the smallest value >= x of the form ceil - k*step, k >= 0
LowestRung(ceil, x_, step) ==
    Sub(ceil, Mul(step, Num(CHOOSE k \in 0..MaxIter :
                                /\ NotBelow(Sub(ceil, Mul(step, Num(k))), x_)
                                /\ ~NotBelow(Sub(ceil, Mul(step, Num(k + 1))), x_))))

RoundUpReturned == pc = "round_up_to_precision:return"

\* C11: for every x and every precision > 0, round_up_to_precision returns
\* the smaller of the lowest rung >= x of the ladder that descends from
\* ceil(x) in steps of precision and the lowest rung >= x of the ladder that
\* descends in steps of 0.5; an x that is itself a rung is returned unchanged.
C11_ReturnsLowestRung ==
    RoundUpReturned =>
        width = Min2(LowestRung(Num(CeilOf(x)), x, precision),
                     LowestRung(Num(CeilOf(x)), x, Frac(1, 2)))

\* C12: for every x and every precision > 0 the value returned by
\* round_up_to_precision is at least x and at most ceil(x).
C12_BetweenArgumentAndCeiling ==
    RoundUpReturned => NotBelow(width, x) /\ LessEq(width, Num(CeilOf(x)))

\* a call whose loop has descended and that returns less than the ceiling
C12_Witness ==
    RoundUpReturned /\ iters > 0 /\ Less(width, Num(CeilOf(x))) /\ x.root

\* C13: round_up never rounds down and is idempotent: for every x and every
\* n >= 0, round_up(x, n) >= x and round_up(round_up(x, n), n) equals
\* round_up(x, n).
C13_RoundUpIdempotentNeverDown ==
    pc = "round_up:again" => ~FloatLess(temp1, x) /\ temp2 = temp1

\* C14: a column design with no width restriction emits a square plan
\* (length = width); whenever the emitted length equals the emitted width the
\* steel area of the short direction equals that of the long direction; and
\* the short-direction steel calculation runs only when length # width.
C14_SquareSharesSteel ==
    Column =>
        /\ (pc = "done" /\ req.width_restriction = 0) => length = width
        /\ (pc = "done" /\ length = width) => min_steel_area_width = min_steel_area_length
        /\ pc = "get_steel_reqd:width" => length # width

\* an unrestricted column design that is complete
C14_Witness ==
    /\ Column /\ pc = "done" /\ req.width_restriction = 0
    /\ length = width /\ min_steel_area_width = min_steel_area_length
    /\ Less(Num(0), min_steel_area_length)

\* the area get_dimensions requires (lines 884-886), from the net pressure
\* under the 2 ft thickness a column footing starts with
reqd_area == Div(Add(d_l, l_l), net_asp(a_s_p, w_e, bottom, Num(2), w_c))

\* C15: a column design with a width restriction W > 0 emits width = W and a
\* length >= required area / W, where required area = (dead + live) / net
\* allowable pressure, so that length * width is not below the required area.
C15_RestrictedPlanCoversArea ==
    (Column /\ pc = "done" /\ req.width_restriction > 0) =>
        /\ width = Num(req.width_restriction)
        /\ LessEq(Div(reqd_area, Num(req.width_restriction)), length)
        /\ LessEq(reqd_area, Mul(length, width))

\* a complete restricted design whose length was rounded up past its width
C15_Witness ==
    /\ Column /\ pc = "done" /\ req.width_restriction > 0
    /\ Less(width, length)
    /\ Less(Div(reqd_area, Num(req.width_restriction)), length)

\* C16: the narrative sink is not a data dependency: the run of a request
\* with the sink omitted ends as its run with a sink does, and in particular
\* no run ends in a failure raised by an access to the sink.
C16_SinkIsNoDependency ==
    pc = "raised" => err # <<"AttributeError", 108>>

\* Footing.__init__ has set the material properties of the current request
Constructed == i > 0 /\ f_y # None

\* C17: construction derives the material properties from its inputs: lambda
\* is 1.0 / 0.75 / 0.85 for nw / lw / s_lw; (f_y, epsilon_y) is
\* (40000, 0.00138) / (60000, 0.00207) / (75000, 0.00259) for grade
\* 40 / 60 / 75; beta_1 is 0.85 for f_c <= 4000 and
\* max(0.85 - 0.05*(f_c - 4000)/1000, 0.65) above, so 0.65 <= beta_1 <= 0.85.
C17_MaterialProperties ==
    Constructed =>
        /\ conc_type \in {"nw", "lw", "s_lw"}
        /\ conc_type = "nw" => lam = Num(1)
        /\ conc_type = "lw" => lam = Frac(3, 4)
        /\ conc_type = "s_lw" => lam = Frac(17, 20)
        /\ req.grade \in {40, 60, 75}
        /\ req.grade = 40 => f_y = Num(40000) /\ epsilon_y = Frac(138, 100000)
        /\ req.grade = 60 => f_y = Num(60000) /\ epsilon_y = Frac(207, 100000)
        /\ req.grade = 75 => f_y = Num(75000) /\ epsilon_y = Frac(259, 100000)
        /\ req.f_c <= 4000 => beta_1 = Frac(17, 20)
        /\ req.f_c > 4000 =>
               beta_1 = Max2(Sub(Frac(17, 20), Frac(req.f_c - 4000, 20000)), Frac(13, 20))
        /\ LessEq(Frac(13, 20), beta_1) /\ LessEq(beta_1, Frac(17, 20))

\* a footing of 10000 psi concrete, whose beta_1 is held at 0.65
C17_Witness ==
    Constructed /\ req.f_c = 10000 /\ beta_1 = Frac(13, 20) /\ lam = Num(1)

\* the column's one-way shear loop is about to make a pass (line 1068)
ColumnOverDesigned ==
    /\ pc = "check_one_way_shear:column"
    /\ LessEq(Mul(Frac(15, 10), v_u), phi_vn)

\* C18: in the column's one-way shear check, while capacity >= 1.5 * V_u a
\* pass of the loop takes exactly one inch off the thickness, recomputes d
\* from the new thickness by the column formula h*12 - 3 - 1, recomputes
\* both shear quantities and returns to the loop test, from where the design
\* goes on to the steel steps.
C18_ColumnOneWayDecrements ==
    [][ColumnOverDesigned =>
           /\ h' = Sub(h, Inch)
           /\ d' = Sub(Sub(Mul(h', Num(12)), Num(3)), Num(1))
           /\ v_u' = one_way_get_v_u(q_u, col_width, width, length, d')
           /\ phi_vn' = one_way_get_phi_vn(lam, f_c, width, d')
           /\ pc' = "check_one_way_shear:column"]_vars

\* check_two_way_shear is about to return: both loop tests have failed
PunchingExit == InSecondLoop /\ ~LessEq(Mul(Frac(15, 10), v_u), phi_vn)

\* C19: on exit from the punching-shear check, after the increment loop and
\* the decrement loop, V_u <= capacity < 1.5 * V_u at the current d: the
\* decrement loop never leaves the capacity below the required shear.
C19_PunchingExitCovers ==
    PunchingExit => LessEq(v_u, phi_vn) /\ Less(phi_vn, Mul(Frac(15, 10), v_u))

\* the bearing dimension of the design: ft of width per ft of wall, or the
\* plan area of a column footing
bearing == IF ftng_type = "wall" THEN width ELSE Mul(length, width)

\* C20: in every completed design the bearing dimension times the net
\* allowable pressure at the final thickness h is at least dead + live load,
\* although the dimension was sized from the initial thickness.
C20_BearsAtFinalThickness ==
    pc = "done" =>
        LessEq(Add(d_l, l_l), Mul(bearing, net_asp(a_s_p, w_e, bottom, h, w_c)))

\* both loads are positive, and so is the net allowable pressure, under the
\* thickness the design starts with and under the one it ends with
PositiveDesign ==
    /\ Less(Num(0), d_l) /\ Less(Num(0), l_l)
    /\ Less(Num(0), net_asp(a_s_p, w_e, bottom,
                           IF ftng_type = "wall" THEN Frac(3, 2) ELSE Num(2), w_c))
    /\ Less(Num(0), net_asp(a_s_p, w_e, bottom, h, w_c))

\* C21: in every completed design with positive loads and positive net
\* allowable pressure the emitted thickness h and the final effective depth
\* d are strictly positive: the decrement loops never drive d to zero or
\* below.
C21_DepthStaysPositive ==
    (pc = "done" /\ PositiveDesign) => Less(Num(0), h) /\ Less(Num(0), d)

\* C22: for every required area >= 0 the governing minimum reinforcement
\* that get_min_reinforcing returns is at least the required area, in the
\* branch that needs no four-thirds check and in the four-thirds branch.
C22_GoverningCoversRequired ==
    (pc = "get_min_reinforcing:return" /\ LessEq(Num(0), steel_reqd)) =>
        LessEq(steel_reqd, min_steel_area)

\* the four-thirds branch, with four thirds of the required area governing
C22_Witness ==
    /\ pc = "get_min_reinforcing:return"
    /\ Less(Num(0), steel_reqd)
    /\ Less(steel_reqd, get_min_beam(width, d, f_c, f_y))
    /\ min_steel_area = four_thirds_reqd(steel_reqd)
    /\ Less(get_min_slab(width, h, f_y).val, min_steel_area)

=============================================================================
